---- MODULE Spec2Model ----
(***************************************************************************)
(* Automation Roadmap Tool (src/tool7.py): the calculation engine          *)
(* (ops_definitions, phase_index, remaining_ops_for_phase,                 *)
(* crew_per_shift_required_for_phase, compute_results), the handler        *)
(* MainWindow.on_calculate that reads the form, validates it and caches    *)
(* the request with its results, the handlers that call it (toggles,       *)
(* reset_defaults) and export_csv; and the engines of the two earlier      *)
(* versions, src/tool3.py and src/tool5.py.                                *)
(*                                                                         *)
(* Numbers.  The program computes with Python floats obtained from the     *)
(* text of the form by float(text.strip()).  A float is modelled as a      *)
(* record [k, n, d]: k = "fin" is the exact rational n/d (d > 0, lowest    *)
(* terms), k = "inf" is +inf (n = 1) or -inf (n = -1), k = "nan" is NaN,   *)
(* and k = "zde" stands for a raised ZeroDivisionError.  Rounding, finite  *)
(* overflow and the sign of zero are not modelled.                         *)
(***************************************************************************)
EXTENDS Integers, Sequences, FiniteSets, TLC

VARIABLES
    ui,     \* the form: text fields, check boxes, combo boxes, table rows
    row,    \* the table row the user is working on
    last,   \* the _last_* fields of MainWindow
    ev,     \* what the most recent on_calculate did
    request, \* the request it worked on: the inputs and the five override dicts
    csv     \* what the most recent export_csv did, None before the first

vars == <<ui, row, last, ev, request, csv>>

----------------------------------------------------------------------------
(* Python float arithmetic *)

Abs(x) == IF x < 0 THEN -x ELSE x

RECURSIVE Gcd(_, _)
Gcd(a, b) == IF b = 0 THEN a ELSE Gcd(b, a % b)

Sgn(x) == IF x > 0 THEN 1 ELSE IF x < 0 THEN -1 ELSE 0

\* the float n/d, in lowest terms with a positive denominator
Fin(n, d) ==
    LET s == IF d < 0 THEN -1 ELSE 1
        g == Gcd(Abs(n), Abs(d))
    IN  [k |-> "fin", n |-> (s * n) \div g, d |-> (s * d) \div g]

NaN == [k |-> "nan", n |-> 0, d |-> 1]
Inf(s) == [k |-> "inf", n |-> s, d |-> 1]
ZDE == [k |-> "zde", n |-> 0, d |-> 1]

Zero == Fin(0, 1)
One == Fin(1, 1)

IsFin(x) == x.k = "fin"
IsNaN(x) == x.k = "nan"
IsZero(x) == x.k = "fin" /\ x.n = 0
\* sign of a float that is not NaN
SignOf(x) == Sgn(x.n)

\* x + y
FAdd(x, y) ==
    IF x.k = "zde" \/ y.k = "zde" THEN ZDE
    ELSE IF x.k = "nan" \/ y.k = "nan" THEN NaN
    ELSE IF x.k = "inf" /\ y.k = "inf" THEN (IF x.n = y.n THEN x ELSE NaN)
    ELSE IF x.k = "inf" THEN x
    ELSE IF y.k = "inf" THEN y
    ELSE Fin(x.n * y.d + y.n * x.d, x.d * y.d)

FNeg(x) == IF x.k = "fin" THEN Fin(-x.n, x.d)
           ELSE IF x.k = "inf" THEN Inf(-x.n) ELSE x

\* x - y
FSub(x, y) == FAdd(x, FNeg(y))

\* x * y
FMul(x, y) ==
    IF x.k = "zde" \/ y.k = "zde" THEN ZDE
    ELSE IF x.k = "nan" \/ y.k = "nan" THEN NaN
    ELSE IF x.k = "inf" \/ y.k = "inf"
         THEN (IF SignOf(x) * SignOf(y) = 0 THEN NaN ELSE Inf(SignOf(x) * SignOf(y)))
    ELSE Fin(x.n * y.n, x.d * y.d)

\* x / y : Python raises ZeroDivisionError when y is zero
FDiv(x, y) ==
    IF x.k = "zde" \/ y.k = "zde" THEN ZDE
    ELSE IF IsZero(y) THEN ZDE
    ELSE IF x.k = "nan" \/ y.k = "nan" THEN NaN
    ELSE IF x.k = "inf" /\ y.k = "inf" THEN NaN
    ELSE IF x.k = "inf" THEN Inf(SignOf(x) * SignOf(y))
    ELSE IF y.k = "inf" THEN Zero
    ELSE Fin(x.n * y.d, x.d * y.n)

\* x < y ; every comparison with NaN is false
FLt(x, y) ==
    IF x.k \in {"nan", "zde"} \/ y.k \in {"nan", "zde"} THEN FALSE
    ELSE IF x.k = "inf" THEN x.n = -1 /\ ~(y.k = "inf" /\ y.n = -1)
    ELSE IF y.k = "inf" THEN y.n = 1
    ELSE x.n * y.d < y.n * x.d

\* x == y
FEq(x, y) ==
    IF x.k \in {"nan", "zde"} \/ y.k \in {"nan", "zde"} THEN FALSE
    ELSE x = y

FLe(x, y) == FLt(x, y) \/ FEq(x, y)
FGt(x, y) == FLt(y, x)
FGe(x, y) == FLe(y, x)

\* the builtin max(x, y): the first argument unless the second is greater
PyMax2(x, y) == IF FGt(y, x) THEN y ELSE x

\* the builtin max(seq) of a non-empty list
RECURSIVE PyMaxUpTo(_, _)
PyMaxUpTo(s, i) == IF i = 1 THEN s[1] ELSE PyMax2(PyMaxUpTo(s, i - 1), s[i])
PyMaxList(s) == PyMaxUpTo(s, Len(s))

----------------------------------------------------------------------------
(* Text of the form fields and float(text) *)

\* the text of a decimal numeral whose value is n/d
Num(n, d) == [s |-> "num", n |-> n, d |-> d]
\* any other text: "nan", "inf", "-inf", "abc" (not a number), "" (empty)
Txt(s) == [s |-> s, n |-> 0, d |-> 1]

ValueError == [k |-> "ValueError", n |-> 0, d |-> 1]

\* float(text.strip())
PyFloat(t) ==
    CASE t.s = "num" -> Fin(t.n, t.d)
      [] t.s = "nan" -> NaN
      [] t.s = "inf" -> Inf(1)
      [] t.s = "-inf" -> Inf(-1)
      [] OTHER -> ValueError

----------------------------------------------------------------------------
(* Model: catalogue and engine *)

PHASES == <<"Never", "Phase 1", "Phase 2", "Phase 3">>

\* the name of the O2 lancing operation (written with a subscript 2 in the source)
O2Name == "O2 lancing"

\* tip_clean without the case of a CNT life of one heat
tip_clean_NoLifeRule(inputs) == inputs.heat_per_day

\* return 0.0 if inputs.cnt_life == 1 else inputs.heat_per_day
tip_clean(inputs) == IF FEq(inputs.cnt_life, One) THEN Zero ELSE inputs.heat_per_day

\* ops/day formulas of the catalogue
OpsPerDay(fn, inputs) ==
    CASE fn = "cylinder" -> FMul(inputs.heat_per_day, Fin(2, 1))
      [] fn = "tip_clean" -> tip_clean(inputs)
      [] fn = "o2_lancing" -> inputs.heat_per_day
      [] fn = "plate_inspection" -> inputs.heat_per_day
      [] fn = "cnt_exchange" -> IF inputs.kk = "yes" THEN Zero
                                ELSE FDiv(inputs.heat_per_day, inputs.cnt_life)
      [] fn = "plate_exchange" -> FDiv(inputs.heat_per_day, inputs.plate_life)
      [] fn = "plate_cementing" -> FDiv(inputs.heat_per_day, inputs.plate_life)
      [] fn = "in_bottom_clean" -> FDiv(inputs.heat_per_day, inputs.plate_life)
      [] fn = "in_exchange" -> FDiv(inputs.heat_per_day, inputs.in_life)
      [] fn = "pp_exchange" -> FDiv(inputs.heat_per_day, inputs.pp_life)

OperationDef(name, fn, time, phase, cost, crew) ==
    [name |-> name, ops_per_day_fn |-> fn, default_time_min |-> time,
     default_phase |-> phase, default_cost_k_eur |-> cost,
     default_crew_per_shift_manual |-> crew]

ops_definitions ==
    << OperationDef("Cylinder manipulation", "cylinder", 1, "Phase 1", 100, 2),
       OperationDef("CNT tip cleaning", "tip_clean", 3, "Phase 2", 100, 2),
       OperationDef(O2Name, "o2_lancing", 4, "Phase 1", 100, 2),
       OperationDef("Plate inspection", "plate_inspection", 1, "Phase 2", 100, 2),
       OperationDef("CNT exchange", "cnt_exchange", 3, "Phase 1", 100, 2),
       OperationDef("Plate exchange", "plate_exchange", 7, "Phase 1", 100, 2),
       OperationDef("Plate cementing", "plate_cementing", 2, "Phase 1", 100, 2),
       OperationDef("IN & bottom plate surface cleaning", "in_bottom_clean", 3, "Phase 3", 100, 2),
       OperationDef("IN exchange", "in_exchange", 15, "Phase 3", 100, 2),
       OperationDef("PP exchange", "pp_exchange", 15, "Phase 3", 100, 2) >>

NDefs == Len(ops_definitions)
NameOf(i) == ops_definitions[i].name
OpNames == {ops_definitions[i].name : i \in 1..NDefs}

\* phase_index with "Never" ranked before every phase
phase_index_NeverFirst(phase) ==
    IF phase = "Phase 1" THEN 1
    ELSE IF phase = "Phase 2" THEN 2
    ELSE IF phase = "Phase 3" THEN 3
    ELSE 0

phase_index(phase) ==
    IF phase = "Phase 1" THEN 1
    ELSE IF phase = "Phase 2" THEN 2
    ELSE IF phase = "Phase 3" THEN 3
    ELSE 999

workload_h_per_day(ops_per_day, time_min) ==
    FDiv(FMul(ops_per_day, time_min), Fin(60, 1))

\* remaining_ops_for_phase without the residual of O2 lancing
remaining_ops_NoResidual(op_name, baseline_ops, selected_phase, phase_n, inputs) ==
    IF phase_n < phase_index(selected_phase) THEN baseline_ops ELSE Zero

remaining_ops_for_phase(op_name, baseline_ops, selected_phase, phase_n, inputs) ==
    LET auto_at == phase_index(selected_phase)
    IN  IF phase_n < auto_at THEN baseline_ops
        ELSE IF op_name = O2Name THEN FMul(FSub(One, inputs.o2_success), baseline_ops)
        ELSE Zero

\* dict.get(key, default)
Get(m, key, default) == IF key \in DOMAIN m THEN m[key] ELSE default

\* float(x) of a catalogue default
Float(x) == Fin(x, 1)

\* every operation taken as enabled
IsEnabledAlways(enabled, name) == TRUE

\* enabled.get(d.name, True)
IsEnabled(enabled, name) == Get(enabled, name, TRUE)

\* automated at phase_n only, not at the later phases
AutomatedExactlyAt(sel_phase, phase_n) == phase_index(sel_phase) = phase_n

\* automated strictly before phase_n
AutomatedBefore(sel_phase, phase_n) == phase_index(sel_phase) < phase_n

\* phase_index(sel_phase) <= phase_n : automated at phase_n or earlier
AutomatedBy(sel_phase, phase_n) == phase_index(sel_phase) <= phase_n

\* the accumulation  s = 0.0; for i in 1..n: s += term[i]  in catalogue order
RECURSIVE Accumulate(_, _)
Accumulate(term, i) == IF i = 0 THEN Zero ELSE FAdd(Accumulate(term, i - 1), term[i])

\* the list built with used.insert(0, d.name) for used.append(d.name)
RECURSIVE NamesUpToReversed(_, _)
NamesUpToReversed(keep, i) ==
    IF i = 0 THEN <<>>
    ELSE IF keep[i] THEN <<ops_definitions[i].name>> \o NamesUpToReversed(keep, i - 1)
    ELSE NamesUpToReversed(keep, i - 1)

\* the list built by  for d in defs: if keep[i]: used.append(d.name)
RECURSIVE NamesUpTo(_, _)
NamesUpTo(keep, i) ==
    IF i = 0 THEN <<>>
    ELSE IF keep[i] THEN Append(NamesUpTo(keep, i - 1), ops_definitions[i].name)
    ELSE NamesUpTo(keep, i - 1)

RECURSIVE ReqsUpTo(_, _, _)
ReqsUpTo(keep, req, i) ==
    IF i = 0 THEN <<>>
    ELSE IF keep[i] THEN Append(ReqsUpTo(keep, req, i - 1), req[i])
    ELSE ReqsUpTo(keep, req, i - 1)

crew_per_shift_required_for_phase(defs, enabled, phases, crew_manual_per_shift, phase_n, min_crew_per_shift_hse, automated_crew_per_shift) ==
    LET on == [i \in 1..Len(defs) |-> IsEnabled(enabled, defs[i].name)]
        req == [i \in 1..Len(defs) |->
                  LET sel_phase == Get(phases, defs[i].name, defs[i].default_phase)
                      automated == phase_n >= phase_index(sel_phase)
                  IN  IF automated THEN automated_crew_per_shift
                      ELSE Get(crew_manual_per_shift, defs[i].name,
                               Float(defs[i].default_crew_per_shift_manual))]
        reqs == ReqsUpTo(on, req, Len(defs))
    IN  IF reqs = <<>> THEN PyMax2(Zero, min_crew_per_shift_hse)
        ELSE PyMax2(min_crew_per_shift_hse, PyMaxList(reqs))

\* saving_pct without the guard on the baseline
SavingPctUnguarded(saving_h, baseline_h) == FDiv(saving_h, baseline_h)

\* saving_pct = (saving_h / baseline_h) if baseline_h > 0 else 0.0
SavingPct(saving_h, baseline_h) ==
    IF FGt(baseline_h, Zero) THEN FDiv(saving_h, baseline_h) ELSE Zero

\* paid_headcount_saved without the clamp at 0
PaidHeadcountSavedUnclamped(paid_headcount_baseline, paid_headcount_required) ==
    FSub(paid_headcount_baseline, paid_headcount_required)

\* paid_headcount_saved = max(0.0, paid_headcount_baseline - paid_headcount_required)
PaidHeadcountSaved(paid_headcount_baseline, paid_headcount_required) ==
    PyMax2(Zero, FSub(paid_headcount_baseline, paid_headcount_required))

\* what compute_results has accumulated when its loops are done
Totals(inputs, times_min, phases, costs_k_eur, enabled) ==
    LET defs == ops_definitions
        N == Len(defs)
        on == [i \in 1..N |-> IsEnabled(enabled, defs[i].name)]
        sel == [i \in 1..N |-> Get(phases, defs[i].name, defs[i].default_phase)]
        used(phase_n) ==
            NamesUpTo([i \in 1..N |-> on[i] /\ AutomatedBy(sel[i], phase_n)], N)
        invest(phase_n) ==
            Accumulate([i \in 1..N |->
                IF on[i] /\ AutomatedBy(sel[i], phase_n)
                THEN Get(costs_k_eur, defs[i].name, Float(defs[i].default_cost_k_eur))
                ELSE Zero], N)
        ops == [i \in 1..N |-> IF on[i] THEN OpsPerDay(defs[i].ops_per_day_fn, inputs) ELSE Zero]
        tmin == [i \in 1..N |-> Get(times_min, defs[i].name, Float(defs[i].default_time_min))]
        remaining(phase_n) ==
            Accumulate([i \in 1..N |->
                IF on[i]
                THEN workload_h_per_day(
                        remaining_ops_for_phase(defs[i].name, ops[i], sel[i], phase_n, inputs),
                        tmin[i])
                ELSE Zero], N)
    IN  [baseline_h |-> Accumulate([i \in 1..N |->
                            IF on[i] THEN workload_h_per_day(ops[i], tmin[i]) ELSE Zero], N),
         remaining_h |-> <<remaining(1), remaining(2), remaining(3)>>,
         solutions_up_to |-> <<used(1), used(2), used(3)>>,
         invest_total |-> <<invest(1), invest(2), invest(3)>>]

\* the PhaseResults that compute_results builds for phase_n from its totals t
PhaseResults(t, phase_n, inputs, phases, enabled, crew_manual_per_shift) ==
    LET rem == t.remaining_h[phase_n]
        saving_h == FSub(t.baseline_h, rem)
        shifts_per_day == inputs.shifts_per_day
        paid_headcount_baseline == FMul(inputs.crew_per_shift_baseline, shifts_per_day)
        inv_total_k == t.invest_total[phase_n]
        crew_req_per_shift == crew_per_shift_required_for_phase(
            ops_definitions, enabled, phases, crew_manual_per_shift, phase_n,
            inputs.min_crew_per_shift_hse, inputs.automated_crew_per_shift)
        paid_headcount_required == FMul(crew_req_per_shift, shifts_per_day)
        paid_headcount_saved ==
            PaidHeadcountSaved(paid_headcount_baseline, paid_headcount_required)
    IN  [remaining_h_per_day |-> rem,
         saving_h_per_day |-> saving_h,
         saving_pct |-> SavingPct(saving_h, t.baseline_h),
         saving_h_per_month |-> FMul(saving_h, inputs.working_days_month),
         saving_h_per_year |-> FMul(saving_h, inputs.working_days_year),
         solutions_used |-> t.solutions_up_to[phase_n],
         investment_k_eur_total |-> inv_total_k,
         investment_k_eur_incremental |->
             FSub(inv_total_k, IF phase_n > 1 THEN t.invest_total[phase_n - 1] ELSE Zero),
         crew_per_shift_required |-> crew_req_per_shift,
         paid_headcount_baseline |-> paid_headcount_baseline,
         paid_headcount_required |-> paid_headcount_required,
         paid_headcount_saved |-> paid_headcount_saved,
         annual_labor_cost_reduction |->
             FMul(paid_headcount_saved, inputs.avg_operator_cost_year)]

\* a ZeroDivisionError left compute_results before it returned
Raised(baseline_h, phase_results) ==
    \/ baseline_h.k = "zde"
    \/ \E n \in 1..3 : phase_results[n].saving_pct.k = "zde"

Returned(baseline_h, phase_results) ==
    [raised |-> Raised(baseline_h, phase_results),
     baseline_h |-> baseline_h,
     phase_results |-> phase_results]

\* compute_results: [raised, baseline_h, phase_results], phase_results[n] for n = 1, 2, 3
compute_results(inputs, times_min, phases, costs_k_eur, enabled, crew_manual_per_shift) ==
    LET t == Totals(inputs, times_min, phases, costs_k_eur, enabled)
    IN  Returned(t.baseline_h,
                 << PhaseResults(t, 1, inputs, phases, enabled, crew_manual_per_shift),
                    PhaseResults(t, 2, inputs, phases, enabled, crew_manual_per_shift),
                    PhaseResults(t, 3, inputs, phases, enabled, crew_manual_per_shift) >>)

----------------------------------------------------------------------------
(* The engine of src/tool3.py: no enabled flags, no crew and labor figures *)

OperationDef_tool3(name, fn, time, phase, cost) ==
    [name |-> name, ops_per_day_fn |-> fn, default_time_min |-> time,
     default_phase |-> phase, default_cost_k_eur |-> cost]

ops_definitions_tool3 ==
    << OperationDef_tool3("Cylinder manipulation", "cylinder", 1, "Phase 1", 100),
       OperationDef_tool3("CNT tip cleaning", "tip_clean", 3, "Phase 2", 100),
       OperationDef_tool3(O2Name, "o2_lancing", 4, "Phase 1", 100),
       OperationDef_tool3("Plate inspection", "plate_inspection", 1, "Phase 2", 100),
       OperationDef_tool3("CNT exchange", "cnt_exchange", 3, "Phase 1", 100),
       OperationDef_tool3("Plate exchange", "plate_exchange", 7, "Phase 1", 100),
       OperationDef_tool3("Plate cementing", "plate_cementing", 2, "Phase 1", 100),
       OperationDef_tool3("IN & bottom plate surface cleaning", "in_bottom_clean", 3, "Phase 3", 100),
       OperationDef_tool3("IN exchange", "in_exchange", 15, "Phase 3", 100),
       OperationDef_tool3("PP exchange", "pp_exchange", 15, "Phase 3", 100) >>

OpsPerDay_tool3(fn, inputs) ==
    CASE fn = "cylinder" -> FMul(inputs.heat_per_day, Fin(2, 1))
      [] fn = "tip_clean" -> IF FEq(inputs.cnt_life, One) THEN Zero ELSE inputs.heat_per_day
      [] fn = "o2_lancing" -> inputs.heat_per_day
      [] fn = "plate_inspection" -> inputs.heat_per_day
      [] fn = "cnt_exchange" -> IF inputs.kk = "yes" THEN Zero
                                ELSE FDiv(inputs.heat_per_day, inputs.cnt_life)
      [] fn = "plate_exchange" -> FDiv(inputs.heat_per_day, inputs.plate_life)
      [] fn = "plate_cementing" -> FDiv(inputs.heat_per_day, inputs.plate_life)
      [] fn = "in_bottom_clean" -> FDiv(inputs.heat_per_day, inputs.plate_life)
      [] fn = "in_exchange" -> FDiv(inputs.heat_per_day, inputs.in_life)
      [] fn = "pp_exchange" -> FDiv(inputs.heat_per_day, inputs.pp_life)

phase_index_tool3(phase) ==
    CASE phase = "Phase 1" -> 1
      [] phase = "Phase 2" -> 2
      [] phase = "Phase 3" -> 3
      [] OTHER -> 999

workload_h_per_day_tool3(ops_per_day, time_min) ==
    FDiv(FMul(ops_per_day, time_min), Fin(60, 1))

remaining_ops_for_phase_tool3(op_name, baseline_ops, selected_phase, phase_n, inputs) ==
    IF phase_n < phase_index_tool3(selected_phase) THEN baseline_ops
    ELSE IF op_name = O2Name THEN FMul(FSub(One, inputs.o2_success), baseline_ops)
    ELSE Zero

\* the names d.name of the rows i <= j with take[i], in the order of the list
RECURSIVE Appended(_, _, _)
Appended(defs, take, j) ==
    IF j = 0 THEN <<>>
    ELSE IF take[j] THEN Append(Appended(defs, take, j - 1), defs[j].name)
    ELSE Appended(defs, take, j - 1)

\* PhaseResults of src/tool3.py and src/tool5.py for phase_n
PhaseResults_tool3(baseline_h, remaining_h, solutions_up_to, invest_total, phase_n, inputs) ==
    LET rem == remaining_h[phase_n]
        saving_h == FSub(baseline_h, rem)
        inv_total_k == invest_total[phase_n]
    IN  [remaining_h_per_day |-> rem,
         saving_h_per_day |-> saving_h,
         saving_pct |-> IF FGt(baseline_h, Zero) THEN FDiv(saving_h, baseline_h) ELSE Zero,
         saving_h_per_month |-> FMul(saving_h, inputs.working_days_month),
         saving_h_per_year |-> FMul(saving_h, inputs.working_days_year),
         solutions_used |-> solutions_up_to[phase_n],
         investment_k_eur_total |-> inv_total_k,
         investment_k_eur_incremental |->
             FSub(inv_total_k, IF phase_n > 1 THEN invest_total[phase_n - 1] ELSE Zero)]

\* compute_results of src/tool3.py
compute_results_tool3(inputs, times_min, phases, costs_k_eur) ==
    LET defs == ops_definitions_tool3
        N == Len(defs)
        sel == [i \in 1..N |-> Get(phases, defs[i].name, defs[i].default_phase)]
        c == [i \in 1..N |-> Get(costs_k_eur, defs[i].name, Float(defs[i].default_cost_k_eur))]
        ops == [i \in 1..N |-> OpsPerDay_tool3(defs[i].ops_per_day_fn, inputs)]
        tmin == [i \in 1..N |-> Get(times_min, defs[i].name, Float(defs[i].default_time_min))]
        used(phase_n) == Appended(defs, [i \in 1..N |-> phase_index_tool3(sel[i]) <= phase_n], N)
        s(phase_n) ==
            Accumulate([i \in 1..N |-> IF phase_index_tool3(sel[i]) <= phase_n THEN c[i] ELSE Zero], N)
        rem(phase_n) ==
            Accumulate([i \in 1..N |->
                workload_h_per_day_tool3(
                    remaining_ops_for_phase_tool3(defs[i].name, ops[i], sel[i], phase_n, inputs),
                    tmin[i])], N)
        baseline_h == Accumulate([i \in 1..N |-> workload_h_per_day_tool3(ops[i], tmin[i])], N)
        remaining_h == <<rem(1), rem(2), rem(3)>>
        solutions_up_to == <<used(1), used(2), used(3)>>
        invest_total == <<s(1), s(2), s(3)>>
    IN  Returned(baseline_h,
                 [phase_n \in 1..3 |->
                     PhaseResults_tool3(baseline_h, remaining_h, solutions_up_to, invest_total,
                                        phase_n, inputs)])

----------------------------------------------------------------------------
(* The engine of src/tool5.py: tool3's with the enabled flags *)

\* compute_results of src/tool5.py; its catalogue, formulas and helpers are
\* those of src/tool3.py, line for line
compute_results_tool5(inputs, times_min, phases, costs_k_eur, enabled) ==
    LET defs == ops_definitions_tool3
        N == Len(defs)
        skip == [i \in 1..N |-> ~Get(enabled, defs[i].name, TRUE)]
        sel == [i \in 1..N |-> Get(phases, defs[i].name, defs[i].default_phase)]
        c == [i \in 1..N |-> Get(costs_k_eur, defs[i].name, Float(defs[i].default_cost_k_eur))]
        ops == [i \in 1..N |-> OpsPerDay_tool3(defs[i].ops_per_day_fn, inputs)]
        tmin == [i \in 1..N |-> Get(times_min, defs[i].name, Float(defs[i].default_time_min))]
        used(phase_n) ==
            Appended(defs, [i \in 1..N |-> ~skip[i] /\ phase_index_tool3(sel[i]) <= phase_n], N)
        s(phase_n) ==
            Accumulate([i \in 1..N |->
                IF ~skip[i] /\ phase_index_tool3(sel[i]) <= phase_n THEN c[i] ELSE Zero], N)
        rem(phase_n) ==
            Accumulate([i \in 1..N |->
                IF skip[i] THEN Zero
                ELSE workload_h_per_day_tool3(
                        remaining_ops_for_phase_tool3(defs[i].name, ops[i], sel[i], phase_n, inputs),
                        tmin[i])], N)
        baseline_h ==
            Accumulate([i \in 1..N |->
                IF skip[i] THEN Zero ELSE workload_h_per_day_tool3(ops[i], tmin[i])], N)
        remaining_h == <<rem(1), rem(2), rem(3)>>
        solutions_up_to == <<used(1), used(2), used(3)>>
        invest_total == <<s(1), s(2), s(3)>>
    IN  Returned(baseline_h,
                 [phase_n \in 1..3 |->
                     PhaseResults_tool3(baseline_h, remaining_h, solutions_up_to, invest_total,
                                        phase_n, inputs)])

----------------------------------------------------------------------------
(* MainWindow: the form, the cached request and results, on_calculate *)

None == <<>>
Some(x) == <<x>>

\* the texts a field is given by populate_scope_table and reset_defaults ("%g")
DefaultText(x) == Num(x, 1)

\* the form as MainWindow.__init__ builds it
DefaultForm ==
    [kk |-> "no", heat |-> Num(20, 1), plate |-> Num(2, 1), cnt |-> Num(1, 1),
     inlife |-> Num(9, 1), pplife |-> Num(20, 1), o2 |-> Num(95, 100),
     days_month |-> Num(22, 1), days_year |-> Num(250, 1),
     chk_show_costs |-> TRUE, chk_crew_model |-> FALSE, chk_auto_to_zero |-> FALSE,
     crew_baseline |-> Num(3, 1), shifts_day |-> Num(3, 1), hse_floor |-> Num(1, 1),
     op_cost_year |-> Num(70000, 1),
     use |-> [i \in 1..NDefs |-> TRUE],
     phase |-> [i \in 1..NDefs |-> ops_definitions[i].default_phase],
     time |-> [i \in 1..NDefs |-> DefaultText(ops_definitions[i].default_time_min)],
     cost |-> [i \in 1..NDefs |-> DefaultText(ops_definitions[i].default_cost_k_eur)],
     crew |-> [i \in 1..NDefs |-> DefaultText(ops_definitions[i].default_crew_per_shift_manual)]]

\* MainWindow.read_inputs; a field that float() rejects is left as ValueError
read_inputs(u) ==
    LET crew_model_on == u.chk_crew_model
        automated_crew == IF crew_model_on /\ u.chk_auto_to_zero THEN Zero ELSE One
    IN  [kk |-> u.kk,
         heat_per_day |-> PyFloat(u.heat),
         plate_life |-> PyFloat(u.plate),
         cnt_life |-> PyFloat(u.cnt),
         in_life |-> PyFloat(u.inlife),
         pp_life |-> PyFloat(u.pplife),
         o2_success |-> PyFloat(u.o2),
         working_days_year |-> PyFloat(u.days_year),
         working_days_month |-> PyFloat(u.days_month),
         crew_per_shift_baseline |-> IF crew_model_on THEN PyFloat(u.crew_baseline) ELSE Zero,
         shifts_per_day |-> IF crew_model_on THEN PyFloat(u.shifts_day) ELSE Zero,
         min_crew_per_shift_hse |-> IF crew_model_on THEN PyFloat(u.hse_floor) ELSE Zero,
         avg_operator_cost_year |-> IF crew_model_on THEN PyFloat(u.op_cost_year) ELSE Zero,
         automated_crew_per_shift |-> automated_crew]

InputFloats(inputs) ==
    {inputs.heat_per_day, inputs.plate_life, inputs.cnt_life, inputs.in_life, inputs.pp_life,
     inputs.o2_success, inputs.working_days_year, inputs.working_days_month,
     inputs.crew_per_shift_baseline, inputs.shifts_per_day, inputs.min_crew_per_shift_hse,
     inputs.avg_operator_cost_year}

\* the dict {d.name: value[i]} that read_scope builds, one key per table row
RowDict(value) ==
    [name \in OpNames |-> value[CHOOSE i \in 1..NDefs : ops_definitions[i].name = name]]

\* MainWindow.read_scope: every row is read, enabled or not
read_scope(u) ==
    [enabled |-> RowDict(u.use),
     times |-> RowDict([i \in 1..NDefs |-> PyFloat(u.time[i])]),
     phases |-> RowDict(u.phase),
     costs |-> RowDict([i \in 1..NDefs |-> PyFloat(u.cost[i])]),
     crew_manual |-> RowDict([i \in 1..NDefs |-> PyFloat(u.crew[i])])]

\* float() raised in read_inputs or read_scope
ReadRaises(inputs, scope) ==
    \/ ValueError \in InputFloats(inputs)
    \/ \E k \in DOMAIN scope.times : scope.times[k] = ValueError
    \/ \E k \in DOMAIN scope.costs : scope.costs[k] = ValueError
    \/ \E k \in DOMAIN scope.crew_manual : scope.crew_manual[k] = ValueError

NonPositive(v) == FLe(v, Zero)
Negative(v) == FLt(v, Zero)

\* the keys k of an override dict with enabled.get(k, True) whose value fails
\* the test: v <= 0 if zero_is_bad, else v < 0
Offending(dict, enabled, zero_is_bad) ==
    {k \in DOMAIN dict :
        /\ IsEnabled(enabled, k)
        /\ IF zero_is_bad THEN NonPositive(dict[k]) ELSE Negative(dict[k])}

Min(S) == CHOOSE x \in S : \A y \in S : x <= y

\* the first key of S that  for k, v in dict.items()  meets: the dicts are
\* filled in catalogue order, a key that is no operation name comes after them
FirstKey(S) ==
    IF S \cap OpNames # {}
    THEN ops_definitions[Min({i \in 1..NDefs : ops_definitions[i].name \in S})].name
    ELSE CHOOSE k \in S : TRUE

\* the life check with < for <=
LifeInvalidStrict(life_val) == FLt(life_val, Zero)

\* life_val <= 0
LifeInvalid(life_val) == FLe(life_val, Zero)

\* the heat/day check with < for <=
HeatInvalidStrict(inputs) == FLt(inputs.heat_per_day, Zero)

\* inputs.heat_per_day <= 0
HeatInvalid(inputs) == FLe(inputs.heat_per_day, Zero)

NoMsg == <<>>
Msg(text, key) == <<text, key>>

\* the checks of on_calculate in the order of the code; NoMsg when all pass
Validate(inputs, scope, crew_model_on) ==
    LET badTime == Offending(scope.times, scope.enabled, TRUE)
        badCost == Offending(scope.costs, scope.enabled, FALSE)
        badCrew == Offending(scope.crew_manual, scope.enabled, FALSE)
    IN  IF HeatInvalid(inputs) THEN Msg("Heat/day must be > 0.", "")
        ELSE IF ~(FLe(Zero, inputs.o2_success) /\ FLe(inputs.o2_success, One))
            THEN Msg("O2 success rate must be between 0 and 1.", "")
        ELSE IF FLe(inputs.working_days_month, Zero) \/ FLe(inputs.working_days_year, Zero)
            THEN Msg("Working days/month and days/year must be > 0.", "")
        ELSE IF badTime # {}
            THEN Msg("Time/op must be > 0", FirstKey(badTime))
        ELSE IF badCost # {}
            THEN Msg("Cost must be >= 0", FirstKey(badCost))
        ELSE IF badCrew # {}
            THEN Msg("Crew per shift (manual) must be >= 0", FirstKey(badCrew))
        ELSE IF LifeInvalid(inputs.plate_life) THEN Msg("Plate life must be > 0.", "")
        ELSE IF LifeInvalid(inputs.cnt_life) THEN Msg("CNT life must be > 0.", "")
        ELSE IF LifeInvalid(inputs.in_life) THEN Msg("IN life must be > 0.", "")
        ELSE IF LifeInvalid(inputs.pp_life) THEN Msg("PP life must be > 0.", "")
        ELSE IF crew_model_on /\ FLt(inputs.crew_per_shift_baseline, Zero)
            THEN Msg("Crew per shift (baseline) must be >= 0.", "")
        ELSE IF crew_model_on /\ FLe(inputs.shifts_per_day, Zero)
            THEN Msg("Number of shifts per day must be > 0.", "")
        ELSE IF crew_model_on /\ FLt(inputs.min_crew_per_shift_hse, Zero)
            THEN Msg("Minimum crew per shift (HSE) must be >= 0.", "")
        ELSE IF crew_model_on /\ FLt(inputs.avg_operator_cost_year, Zero)
            THEN Msg("Average operator cost per year must be >= 0.", "")
        ELSE NoMsg

\* what the try block of on_calculate leaves: msg, the exception caught (NoMsg
\* if none); computed, whether compute_results was called; res, its return value
Attempt(msg, computed, inputs, scope, res) ==
    [msg |-> msg, computed |-> computed, inputs |-> inputs, scope |-> scope, res |-> res]

\* ... after compute_results returned res or raised
Computed(inputs, scope, res) ==
    IF res.raised
    THEN Attempt(Msg("float division by zero", ""), TRUE, inputs, scope, None)
    ELSE Attempt(NoMsg, TRUE, inputs, scope, Some(res))

\* ... after the checks gave msg
Checked(inputs, scope, msg) ==
    IF msg # NoMsg
    THEN Attempt(msg, FALSE, inputs, scope, None)
    ELSE Computed(inputs, scope,
                  compute_results(inputs, scope.times, scope.phases, scope.costs,
                                  scope.enabled, scope.crew_manual))

\* ... after read_inputs and read_scope
Outcome(inputs, scope, crew_model_on) ==
    IF ReadRaises(inputs, scope)
    THEN Attempt(Msg("could not convert string to float", ""), FALSE, inputs, scope, None)
    ELSE Checked(inputs, scope, Validate(inputs, scope, crew_model_on))

\* the try block of on_calculate on the form u
TryCalculate(u) == Outcome(read_inputs(u), read_scope(u), u.chk_crew_model)

\* the _last_* fields after a successful calculation
Cache(t) ==
    [inputs |-> Some(t.inputs), times |-> Some(t.scope.times), phases |-> Some(t.scope.phases),
     costs |-> Some(t.scope.costs), enabled |-> Some(t.scope.enabled),
     crew_manual |-> Some(t.scope.crew_manual),
     baseline_h |-> Some(t.res[1].baseline_h), phase_res |-> Some(t.res[1].phase_results)]

\* the _last_* fields as __init__ sets them
NoCache ==
    [inputs |-> None, times |-> None, phases |-> None, costs |-> None, enabled |-> None,
     crew_manual |-> None, baseline_h |-> None, phase_res |-> None]

\* the _last_* fields reset to None when the try block raised
KeptOrCleared(old, t) == IF t.msg = NoMsg THEN Cache(t) ELSE NoCache

\* self._last_inputs assigned inside the try block, right after read_inputs
KeptInputsEarly(old, t) ==
    IF t.msg = NoMsg THEN Cache(t)
    ELSE IF ValueError \in InputFloats(t.inputs) THEN old
    ELSE [old EXCEPT !.inputs = Some(t.inputs)]

\* on_calculate on the form u: what it leaves in the _last_* fields and what it did
\* the _last_* fields are assigned only when the try block raised nothing
Kept(old, t) == IF t.msg = NoMsg THEN Cache(t) ELSE old

\* what the handler did: the dialog it showed and whether it computed
Event(t) == [computed |-> t.computed, msg |-> t.msg]

\* the request the handler worked on
RequestOf(t) == [inputs |-> t.inputs, scope |-> t.scope]

Finish(t) ==
    /\ last' = Kept(last, t)
    /\ ev' = Event(t)
    /\ request' = RequestOf(t)
    /\ UNCHANGED csv

on_calculate(u) == Finish(TryCalculate(u))

----------------------------------------------------------------------------
(* Bounds of the explored forms *)

MaxHeat == 2
MaxTime == 2
MaxCost == 1
MaxCrew == 4
MaxRow == 3

\* texts typed into a numeric field that are no finite numeral
Special == {Txt("nan"), Txt("inf"), Txt("-inf"), Txt("abc")}

HeatTexts == {Num(h, 1) : h \in -1..MaxHeat} \cup Special
LifeTexts == {Num(0, 1), Num(3, 1), Txt("nan"), Txt("inf")}
O2Texts == {Num(0, 1), Num(1, 1), Num(3, 2), Num(-1, 10), Txt("nan")}
DaysTexts == {Num(0, 1), Txt("nan")}
CrewFieldTexts == {Num(0, 1), Num(-1, 1), Num(5, 1), Txt("nan")}
TimeTexts == {Num(t, 2) : t \in -1..MaxTime} \cup {Txt("nan"), Txt("abc")}
CostTexts == {Num(50 * c, 1) : c \in -1..MaxCost} \cup {Txt("nan"), Txt("inf"), Txt("abc")}
CrewTexts == {Num(c, 1) : c \in -1..MaxCrew} \cup {Txt("nan"), Txt("abc")}

\* the default form with the crew & labor cost model switched on
CrewForm == [DefaultForm EXCEPT !.chk_crew_model = TRUE]

\* forms that differ from the default one in the scenario fields
ScenarioForms ==
    {DefaultForm, CrewForm,
     [DefaultForm EXCEPT !.kk = "yes"],
     [DefaultForm EXCEPT !.heat = Txt("inf"), !.o2 = Num(1, 1)],
     [CrewForm EXCEPT !.chk_auto_to_zero = TRUE]}
    \cup {[DefaultForm EXCEPT !.heat = t] : t \in HeatTexts}
    \cup {[DefaultForm EXCEPT !.plate = t] : t \in LifeTexts}
    \cup {[DefaultForm EXCEPT !.cnt = t] : t \in LifeTexts}
    \cup {[DefaultForm EXCEPT !.inlife = t] : t \in LifeTexts}
    \cup {[DefaultForm EXCEPT !.pplife = t] : t \in LifeTexts}
    \cup {[DefaultForm EXCEPT !.o2 = t] : t \in O2Texts}
    \cup {[DefaultForm EXCEPT !.days_month = t] : t \in DaysTexts}
    \cup {[DefaultForm EXCEPT !.days_year = t] : t \in DaysTexts}
    \cup {[CrewForm EXCEPT !.crew_baseline = t] : t \in CrewFieldTexts}
    \cup {[CrewForm EXCEPT !.shifts_day = t] : t \in CrewFieldTexts}
    \cup {[CrewForm EXCEPT !.hse_floor = t] : t \in CrewFieldTexts}
    \cup {[CrewForm EXCEPT !.op_cost_year = t] : t \in CrewFieldTexts}

\* forms that differ from f in one text of table row r, with the other rows
\* all ticked (others = TRUE) or all unticked
RowForms(f, r, others) ==
    LET g == [f EXCEPT !.use = [i \in 1..NDefs |-> IF i = r THEN TRUE ELSE others]]
    IN  {g} \cup {[g EXCEPT !.time[r] = t] : t \in TimeTexts}
            \cup {[g EXCEPT !.cost[r] = t] : t \in CostTexts}
            \cup {[g EXCEPT !.crew[r] = t] : t \in CrewTexts}

\* forms that break two or three rules of the gate at once, one of them in row r
TwoFaultForms(r) ==
    {[DefaultForm EXCEPT !.plate = Num(0, 1), !.time[r] = Num(0, 1)],
     [DefaultForm EXCEPT !.inlife = Num(0, 1), !.cost[r] = Num(-50, 1), !.crew[r] = Num(-1, 1)],
     [DefaultForm EXCEPT !.heat = Num(0, 1), !.o2 = Num(3, 2), !.time[r] = Num(-1, 2)],
     [CrewForm EXCEPT !.days_year = Num(0, 1), !.pplife = Num(0, 1), !.shifts_day = Num(0, 1)],
     [CrewForm EXCEPT !.crew[r] = Num(-1, 1), !.hse_floor = Num(-1, 1), !.op_cost_year = Num(-1, 1)]}

\* forms with the labor model on, an HSE floor that is no finite number and
\* at most the operation of row r ticked
FloorForms(r) ==
    {[CrewForm EXCEPT !.hse_floor = t, !.use = [i \in 1..NDefs |-> i = r]] :
        t \in {Txt("nan"), Txt("inf")}}

\* the forms explored, given the row the user works on
Forms(r) ==
    ScenarioForms \cup RowForms(DefaultForm, r, TRUE) \cup RowForms(DefaultForm, r, FALSE)
                  \cup RowForms(CrewForm, r, TRUE) \cup RowForms(CrewForm, r, FALSE)
                  \cup TwoFaultForms(r) \cup FloorForms(r)

\* f before any text was typed into it: check boxes and phases as in f
BeforeTyping(f) ==
    [DefaultForm EXCEPT !.chk_show_costs = f.chk_show_costs,
                        !.chk_crew_model = f.chk_crew_model,
                        !.chk_auto_to_zero = f.chk_auto_to_zero,
                        !.use = f.use, !.phase = f.phase]

----------------------------------------------------------------------------
(* Specification *)

\* The window after construction (which ends with on_calculate) and after the
\* user ticked check boxes, each change recalculating the form, and then typed
\* into text fields and chose KK, which recalculates nothing.
Init ==
    /\ row \in 1..MaxRow
    /\ ui \in Forms(row)
    /\ last = Kept(NoCache, TryCalculate(BeforeTyping(ui)))
    /\ ev = Event(TryCalculate(BeforeTyping(ui)))
    /\ request = RequestOf(TryCalculate(BeforeTyping(ui)))
    /\ csv = None

\* btn_calc.clicked
BtnCalc ==
    /\ UNCHANGED <<ui, row>>
    /\ on_calculate(ui)

\* stateChanged of the "Use" check box of the row
UseToggled ==
    /\ ui' = [ui EXCEPT !.use[row] = ~ui.use[row]]
    /\ UNCHANGED row
    /\ on_calculate(ui')

\* currentIndexChanged of the phase combo box of the row
PhaseChanged(p) ==
    /\ ui.phase[row] # p
    /\ ui' = [ui EXCEPT !.phase[row] = p]
    /\ UNCHANGED row
    /\ on_calculate(ui')

Next ==
    \/ BtnCalc
    \/ UseToggled
    \/ \E p \in {PHASES[j] : j \in 1..Len(PHASES)} : PhaseChanged(p)

Spec == Init /\ [][Next]_vars

----------------------------------------------------------------------------
(* Specification of the gate and the engine on requests the form cannot build: *)
(* override dicts that lack the key of an operation or hold a key that is no   *)
(* operation name                                                              *)

\* at most so many keys are dropped from or added to the dicts of a request
MaxEdits == 2

\* a key that is no operation name
UnknownKey == "Spare nozzle"

Dicts == {"enabled", "times", "phases", "costs", "crew_manual"}

\* the values given to the unknown key in the dict m
UnknownValues(m) ==
    CASE m = "enabled" -> {FALSE}
      [] m = "times" -> {Zero, Fin(5, 1)}
      [] m = "phases" -> {"Phase 1"}
      [] m = "costs" -> {Fin(-1, 1), Fin(7, 1)}
      [] m = "crew_manual" -> {Fin(-1, 1), Fin(9, 1)}

\* how many keys the dicts of the scope lack or have in excess
Edits(scope) ==
    LET n(m) == Cardinality(OpNames \ DOMAIN scope[m]) + Cardinality(DOMAIN scope[m] \ OpNames)
    IN  n("enabled") + n("times") + n("phases") + n("costs") + n("crew_manual")

\* the checks of on_calculate and compute_results on the request rq
Submit(rq) ==
    /\ UNCHANGED <<ui, row>>
    /\ Finish(Outcome(rq.inputs, rq.scope, ui.chk_crew_model))

\* the request as the form gives it, with all the keys
InitRequest ==
    /\ row \in 1..MaxRow
    /\ ui \in {DefaultForm, CrewForm, [CrewForm EXCEPT !.chk_auto_to_zero = TRUE]}
    /\ last = Kept(NoCache, TryCalculate(ui))
    /\ ev = Event(TryCalculate(ui))
    /\ request = RequestOf(TryCalculate(ui))
    /\ csv = None

\* the same request without the key of the operation of the row in the dict m
DropKey(m) ==
    /\ Edits(request.scope) < MaxEdits
    /\ NameOf(row) \in DOMAIN request.scope[m]
    /\ Submit([request EXCEPT !.scope[m] =
                  [k \in DOMAIN request.scope[m] \ {NameOf(row)} |-> request.scope[m][k]]])

\* the same request with the unknown key in the dict m
AddKey(m, v) ==
    /\ Edits(request.scope) < MaxEdits
    /\ UnknownKey \notin DOMAIN request.scope[m]
    /\ Submit([request EXCEPT !.scope[m] =
                  [k \in DOMAIN request.scope[m] \cup {UnknownKey} |->
                      IF k = UnknownKey THEN v ELSE request.scope[m][k]]])

NextRequest ==
    \/ \E m \in Dicts : DropKey(m)
    \/ \E m \in Dicts : \E v \in UnknownValues(m) : AddKey(m, v)

SpecRequest == InitRequest /\ [][NextRequest]_vars

----------------------------------------------------------------------------
(* MainWindow: the toggles, reset_defaults and export_csv *)

\* on_toggle_costs, on the form with the "Show cost & investment" box changed
on_toggle_costs(u) == on_calculate(u)

\* on_toggle_crew_model, on the form with the "Enable crew & labor cost model"
\* box changed: it enables or disables the labor widgets and recalculates
on_toggle_crew_model(u) == on_calculate(u)

\* the cells of the table as the loop of reset_defaults sets them
DefaultRows ==
    [phase |-> [k \in 1..NDefs |-> ops_definitions[k].default_phase],
     time |-> [k \in 1..NDefs |-> DefaultText(ops_definitions[k].default_time_min)],
     cost |-> [k \in 1..NDefs |-> DefaultText(ops_definitions[k].default_cost_k_eur)],
     crew |-> [k \in 1..NDefs |->
                  DefaultText(ops_definitions[k].default_crew_per_shift_manual)]]

\* the form when the loop of reset_defaults is done with the rows 1..i
ResetRows(u, i) ==
    [u EXCEPT
        !.use = [k \in 1..NDefs |-> IF k <= i THEN TRUE ELSE u.use[k]],
        !.phase = [k \in 1..NDefs |-> IF k <= i THEN DefaultRows.phase[k] ELSE u.phase[k]],
        !.time = [k \in 1..NDefs |-> IF k <= i THEN DefaultRows.time[k] ELSE u.time[k]],
        !.cost = [k \in 1..NDefs |-> IF k <= i THEN DefaultRows.cost[k] ELSE u.cost[k]],
        !.crew = [k \in 1..NDefs |-> IF k <= i THEN DefaultRows.crew[k] ELSE u.crew[k]]]

\* the forms on which on_calculate runs while the loop handles row i of the
\* form v: setChecked(True) and setCurrentText(default) emit their signal
\* when they change the widget
RowSignalsOf(v, i) ==
    (IF ~v.use[i] THEN <<[v EXCEPT !.use[i] = TRUE]>> ELSE <<>>)
       \o (IF v.phase[i] # DefaultRows.phase[i]
           THEN <<[v EXCEPT !.use[i] = TRUE, !.phase[i] = DefaultRows.phase[i]]>>
           ELSE <<>>)

\* the forms on which on_calculate runs during the loop over the rows 1..i
RECURSIVE RowSignals(_, _)
RowSignals(u, i) ==
    IF i = 0 THEN <<>> ELSE RowSignals(u, i - 1) \o RowSignalsOf(ResetRows(u, i - 1), i)

\* the form w with the check boxes and the labor fields as reset
ResetBoxes(w) ==
    [w EXCEPT !.chk_show_costs = TRUE, !.chk_crew_model = FALSE,
              !.crew_baseline = Num(3, 1), !.shifts_day = Num(3, 1),
              !.hse_floor = Num(1, 1), !.op_cost_year = Num(70000, 1),
              !.chk_auto_to_zero = FALSE]

\* the forms on which on_calculate runs after the loop, w being the form with
\* the rows and the working days reset: those of the signals of the check
\* boxes that change, then the form as reset
BoxSignals(w) ==
    (IF ~w.chk_show_costs THEN <<[w EXCEPT !.chk_show_costs = TRUE]>> ELSE <<>>)
       \o (IF w.chk_crew_model
           THEN <<[w EXCEPT !.chk_show_costs = TRUE, !.chk_crew_model = FALSE]>>
           ELSE <<>>)
       \o (IF w.chk_auto_to_zero THEN <<ResetBoxes(w)>> ELSE <<>>)
       \o <<ResetBoxes(w)>>

\* the forms on which on_calculate runs during reset_defaults, in order (the
\* scenario fields heat, lives, O2 and KK are not reset)
ResetCalls(u) ==
    RowSignals(u, NDefs)
       \o BoxSignals([ResetRows(u, NDefs) EXCEPT !.days_month = Num(22, 1),
                                                 !.days_year = Num(250, 1)])

\* the _last_* fields after on_calculate ran on calls[1], ..., calls[j]: those
\* of the latest call that raised nothing, the old ones if every call raised
RECURSIVE KeptThrough(_, _, _)
KeptThrough(old, calls, j) ==
    IF j = 0 THEN old
    ELSE Kept(KeptThrough(old, calls, j - 1), TryCalculate(calls[j]))

\* the window after on_calculate ran on each form of calls, t being the
\* outcome of the last of them
AfterCalls(calls, t) ==
    /\ ui' = calls[Len(calls)]
    /\ last' = Kept(KeptThrough(last, calls, Len(calls) - 1), t)
    /\ ev' = Event(t)
    /\ request' = RequestOf(t)
    /\ UNCHANGED <<row, csv>>

\* the window after on_calculate ran on each form of calls
AfterAll(calls) == AfterCalls(calls, TryCalculate(calls[Len(calls)]))

\* reset_defaults on the form u
reset_defaults(u) == AfterAll(ResetCalls(u))

\* bool(d) of a cached dict: set and not empty
NonEmpty(d) == d # None /\ DOMAIN d[1] # {}

\* the test of export_csv with bool(self._last_baseline_h) for "is not None"
ResultsAvailableIfBaseline(l) ==
    /\ l.inputs # None /\ NonEmpty(l.times) /\ NonEmpty(l.phases) /\ NonEmpty(l.costs)
    /\ NonEmpty(l.phase_res)
    /\ l.baseline_h # None /\ ~IsZero(l.baseline_h[1])
    /\ NonEmpty(l.enabled) /\ NonEmpty(l.crew_manual)

\* self._last_inputs and self._last_times and self._last_phases and
\* self._last_costs and self._last_phase_res and self._last_baseline_h is not
\* None and self._last_enabled and self._last_crew_manual
ResultsAvailable(l) ==
    /\ l.inputs # None /\ NonEmpty(l.times) /\ NonEmpty(l.phases) /\ NonEmpty(l.costs)
    /\ NonEmpty(l.phase_res)
    /\ l.baseline_h # None
    /\ NonEmpty(l.enabled) /\ NonEmpty(l.crew_manual)

YesNo(b) == IF b THEN "yes" ELSE "no"

\* the rows that export_csv writes from the cached request and results l, with
\* the check boxes as they are now; numbers are kept as the floats it formats
CsvRows(l, show_costs, show_crew) ==
    LET i == l.inputs[1]
    IN  [show_costs |-> YesNo(show_costs),
         show_crew |-> YesNo(show_crew),
         scenario |-> <<i.kk, i.heat_per_day, i.plate_life, i.cnt_life, i.in_life, i.pp_life,
                        i.o2_success, i.working_days_month, i.working_days_year>>,
         crew_inputs |-> IF show_crew
                         THEN Some(<<i.crew_per_shift_baseline, i.shifts_per_day,
                                     i.min_crew_per_shift_hse, i.avg_operator_cost_year,
                                     i.automated_crew_per_shift>>)
                         ELSE None,
         baseline |-> l.baseline_h[1],
         operations |-> [j \in 1..NDefs |->
             LET d == ops_definitions[j]
             IN  [use |-> YesNo(Get(l.enabled[1], d.name, TRUE)),
                  function |-> d.name,
                  phase |-> Get(l.phases[1], d.name, d.default_phase),
                  time |-> Get(l.times[1], d.name, Float(d.default_time_min)),
                  cost |-> IF show_costs
                           THEN Some(Get(l.costs[1], d.name, Float(d.default_cost_k_eur)))
                           ELSE None,
                  crew |-> Get(l.crew_manual[1], d.name, Float(d.default_crew_per_shift_manual))]],
         results |-> [p \in 1..3 |->
             LET r == l.phase_res[1][p]
             IN  [saving |-> r.saving_h_per_day,
                  remaining |-> r.remaining_h_per_day,
                  reduction |-> FMul(r.saving_pct, Fin(100, 1)),
                  saving_month |-> r.saving_h_per_month,
                  saving_year |-> r.saving_h_per_year,
                  investment |-> IF show_costs
                                 THEN Some(<<r.investment_k_eur_incremental,
                                             r.investment_k_eur_total>>)
                                 ELSE None,
                  solutions |-> r.solutions_used,
                  labor |-> IF show_crew
                            THEN Some(<<r.crew_per_shift_required, r.paid_headcount_baseline,
                                        r.paid_headcount_required, r.paid_headcount_saved,
                                        r.annual_labor_cost_reduction>>)
                            ELSE None]]]

\* what export_csv did: the dialog outcome and the rows written, if any
Export(out, rows) == Some([out |-> out, rows |-> rows])

\* export_csv, with the path the file dialog returns ("" when cancelled) and
\* whether the file can be opened and written
export_csv(path, writable) ==
    /\ csv' = IF ~ResultsAvailable(last) THEN Export("No results available yet", None)
              ELSE IF path = "" THEN Export("cancelled", None)
              ELSE IF ~writable THEN Export("Failed to export", None)
              ELSE Export("Exported successfully",
                          Some(CsvRows(last, ui.chk_show_costs, ui.chk_crew_model)))
    /\ UNCHANGED <<ui, row, last, ev, request>>

----------------------------------------------------------------------------
(* Specification of the window with all its handlers *)

\* the texts typed into Heat/day and Number of shifts per day
WindowHeatTexts == {Num(20, 1), Txt("abc")}
WindowShiftsTexts == {Num(3, 1), Num(0, 1)}

\* the forms the window starts from: only the first operation ticked (Reset
\* ticks them all), the labor model off or on, and the two texts
WindowForms ==
    {[DefaultForm EXCEPT !.use = use, !.chk_crew_model = crew_model,
                         !.heat = heat, !.shifts_day = shifts] :
        use \in {[i \in 1..NDefs |-> i = 1]},
        crew_model \in BOOLEAN,
        heat \in WindowHeatTexts,
        shifts \in WindowShiftsTexts}

\* The window after construction and after the user ticked check boxes, each
\* change recalculating the form, and then typed into the two text fields;
\* the user works on the first row of the table.
InitWindow ==
    /\ row = 1
    /\ ui \in WindowForms
    /\ last = Kept(NoCache, TryCalculate(BeforeTyping(ui)))
    /\ ev = Event(TryCalculate(BeforeTyping(ui)))
    /\ request = RequestOf(TryCalculate(BeforeTyping(ui)))
    /\ csv = None

\* stateChanged of chk_show_costs
CostsToggled ==
    /\ ui' = [ui EXCEPT !.chk_show_costs = ~ui.chk_show_costs]
    /\ UNCHANGED row
    /\ on_toggle_costs(ui')

\* stateChanged of chk_crew_model
CrewModelToggled ==
    /\ ui' = [ui EXCEPT !.chk_crew_model = ~ui.chk_crew_model]
    /\ UNCHANGED row
    /\ on_toggle_crew_model(ui')

\* stateChanged of chk_auto_to_zero, a box that is enabled with the labor model
AutoToZeroToggled ==
    /\ ui.chk_crew_model
    /\ ui' = [ui EXCEPT !.chk_auto_to_zero = ~ui.chk_auto_to_zero]
    /\ UNCHANGED row
    /\ on_calculate(ui')

\* btn_reset.clicked
BtnReset == reset_defaults(ui)

\* btn_export.clicked
BtnExport(path, writable) == export_csv(path, writable)

NextWindow ==
    \/ BtnCalc
    \/ UseToggled
    \/ PhaseChanged("Never")
    \/ CostsToggled
    \/ CrewModelToggled
    \/ AutoToZeroToggled
    \/ BtnReset
    \/ \E path \in {"", "roadmap.csv"} : \E writable \in BOOLEAN : BtnExport(path, writable)

SpecWindow == InitWindow /\ [][NextWindow]_vars

----------------------------------------------------------------------------
(* The cached request and its results, as the properties below read them *)

\* a calculation has succeeded: the _last_* fields are set
Cached == last.phase_res # None

LInputs == last.inputs[1]
LTimes == last.times[1]
LPhases == last.phases[1]
LCosts == last.costs[1]
LEnabled == last.enabled[1]
LCrewManual == last.crew_manual[1]
LBaseline == last.baseline_h[1]
LPhaseRes == last.phase_res[1]

\* the rank of a selected phase: "Never" ranks above every phase
Rank(phase) ==
    CASE phase = "Phase 1" -> 1
      [] phase = "Phase 2" -> 2
      [] phase = "Phase 3" -> 3
      [] OTHER -> 4

\* the rows of the cached request that are enabled
EnabledRows == {i \in 1..NDefs : LEnabled[NameOf(i)]}

\* the sum of term[i] over the enabled rows of the cached request
SumEnabled(term) == Accumulate([i \in 1..NDefs |-> IF i \in EnabledRows THEN term[i] ELSE Zero], NDefs)

\* occurrences per day and hours per day of row i in the cached request
Demand(i) == OpsPerDay(ops_definitions[i].ops_per_day_fn, LInputs)
Hours(occurrences, i) == FDiv(FMul(occurrences, LTimes[NameOf(i)]), Fin(60, 1))

\* the cached request is the one read from the form: the form was accepted
\* and the cached results are its results
Fresh ==
    /\ last.inputs = Some(read_inputs(ui))
    /\ last.enabled = Some(read_scope(ui).enabled)
    /\ last.phases = Some(read_scope(ui).phases)
    /\ last.times = Some(read_scope(ui).times)
    /\ last.costs = Some(read_scope(ui).costs)
    /\ last.crew_manual = Some(read_scope(ui).crew_manual)

----------------------------------------------------------------------------
(* Properties *)

\* C1: for every request the validation gate accepts, the baseline is >= 0 and
\* is the sum over the enabled operations of occurrences_per_day * time / 60.
C1_BaselineNonNegativeSum ==
    Cached =>
        /\ FGe(LBaseline, Zero)
        /\ LBaseline = SumEnabled([i \in 1..NDefs |-> Hours(Demand(i), i)])

\* the occurrences of row i left manual at phase n, by the automation rule
RuleRemaining(i, n) ==
    IF n < Rank(LPhases[NameOf(i)]) THEN Demand(i)
    ELSE IF NameOf(i) = O2Name THEN FMul(FSub(One, LInputs.o2_success), Demand(i))
    ELSE Zero

O2Row == CHOOSE i \in 1..NDefs : NameOf(i) = O2Name

\* O2 lancing is the only enabled operation, selected for Phase 1, with
\* success rate 0.95, 4 minutes per occurrence and a finite heat/day
OnlyO2AtPhase1 ==
    /\ Cached
    /\ EnabledRows = {O2Row}
    /\ LPhases[O2Name] = "Phase 1"
    /\ LInputs.o2_success = Fin(95, 100)
    /\ LTimes[O2Name] = Fin(4, 1)
    /\ IsFin(LInputs.heat_per_day)

\* C2: remaining_ops_for_phase leaves the occurrences unchanged while the
\* phase is below the rank of the selected phase, and afterwards leaves 0,
\* but (1 - o2_success) * occurrences for O2 lancing; so O2 lancing automated
\* at Phase 1 with success 0.95 and 4 min still contributes
\* 0.05 * heat_per_day * 4/60 h/day at each of the phases 1, 2, 3.
C2_AutomationRule ==
    Cached =>
        /\ \A n \in 1..3 :
              LPhaseRes[n].remaining_h_per_day
                 = SumEnabled([i \in 1..NDefs |-> Hours(RuleRemaining(i, n), i)])
        /\ OnlyO2AtPhase1 =>
              \A n \in 1..3 :
                 LPhaseRes[n].remaining_h_per_day
                    = FDiv(FMul(FMul(Fin(5, 100), LInputs.heat_per_day), Fin(4, 1)), Fin(60, 1))

\* the residual of O2 lancing is reached, and is not zero
C2_Witness ==
    /\ OnlyO2AtPhase1
    /\ \A n \in 1..3 : FGt(LPhaseRes[n].remaining_h_per_day, Zero)

\* both requests of a step are accepted and cached, and the step moved the
\* phase of the row to an earlier one and changed nothing else
MovedEarlier ==
    /\ Fresh
    /\ ev'.msg = NoMsg
    /\ Rank(ui'.phase[row]) < Rank(ui.phase[row])
    /\ ui' = [ui EXCEPT !.phase[row] = ui'.phase[row]]

\* C3: of two valid requests that differ only in one operation's selected
\* phase, the one with the earlier phase has remaining_h_per_day[n] less than
\* or equal to the other's, for n = 1, 2, 3.
C3_MonotoneInPhase ==
    [][MovedEarlier =>
         \A n \in 1..3 :
            FLe(LPhaseRes[n].remaining_h_per_day', LPhaseRes[n].remaining_h_per_day)]_vars

Names(seq) == {seq[j] : j \in 1..Len(seq)}

\* C4: solutions_used[1] is a subset of solutions_used[2], which is a subset
\* of solutions_used[3].
C4_SolutionsGrow ==
    Cached =>
        /\ Names(LPhaseRes[1].solutions_used) \subseteq Names(LPhaseRes[2].solutions_used)
        /\ Names(LPhaseRes[2].solutions_used) \subseteq Names(LPhaseRes[3].solutions_used)

\* each phase adds a solution, and an enabled operation is in none
C4_Witness ==
    /\ Cached
    /\ Names(LPhaseRes[1].solutions_used) # {}
    /\ Names(LPhaseRes[1].solutions_used) # Names(LPhaseRes[2].solutions_used)
    /\ Names(LPhaseRes[2].solutions_used) # Names(LPhaseRes[3].solutions_used)
    /\ \E i \in EnabledRows : NameOf(i) \notin Names(LPhaseRes[3].solutions_used)

\* C5: for every request the validation gate accepts,
\* investment_total[3] >= investment_total[2] >= investment_total[1] >= 0.
C5_InvestmentOrdered ==
    Cached =>
        /\ FGe(LPhaseRes[3].investment_k_eur_total, LPhaseRes[2].investment_k_eur_total)
        /\ FGe(LPhaseRes[2].investment_k_eur_total, LPhaseRes[1].investment_k_eur_total)
        /\ FGe(LPhaseRes[1].investment_k_eur_total, Zero)

\* the cost of row i that counts at phase n
CostBy(i, n) == IF Rank(LPhases[NameOf(i)]) <= n THEN LCosts[NameOf(i)] ELSE Zero

\* C6: investment_total[n] is the sum of cost over the enabled operations
\* whose selected phase has rank <= n, and investment_incremental[n] is
\* investment_total[n] - investment_total[n-1], with investment_total[0] = 0.
C6_Investment ==
    Cached =>
        /\ \A n \in 1..3 :
              LPhaseRes[n].investment_k_eur_total = SumEnabled([i \in 1..NDefs |-> CostBy(i, n)])
        /\ LPhaseRes[1].investment_k_eur_incremental = LPhaseRes[1].investment_k_eur_total
        /\ \A n \in 2..3 :
              LPhaseRes[n].investment_k_eur_incremental
                 = FSub(LPhaseRes[n].investment_k_eur_total, LPhaseRes[n - 1].investment_k_eur_total)

\* the three totals differ, with a cost that is not the default one
C6_Witness ==
    /\ Cached
    /\ \E i \in EnabledRows : LCosts[NameOf(i)] = Fin(50, 1) /\ Rank(LPhases[NameOf(i)]) = 2
    /\ FLt(Zero, LPhaseRes[1].investment_k_eur_total)
    /\ FLt(LPhaseRes[1].investment_k_eur_total, LPhaseRes[2].investment_k_eur_total)
    /\ FLt(LPhaseRes[2].investment_k_eur_total, LPhaseRes[3].investment_k_eur_total)
    /\ FLt(Zero, LPhaseRes[3].investment_k_eur_incremental)

ZeroDivisionError == Msg("float division by zero", "")

\* C7: whenever the baseline workload is 0, saving_pct is 0 for every phase
\* and compute_results completes without a division by zero.
C7_ZeroBaseline ==
    /\ ev.msg # ZeroDivisionError
    /\ (Cached /\ FEq(LBaseline, Zero)) => \A n \in 1..3 : LPhaseRes[n].saving_pct = Zero

\* the baseline is 0 although an operation is enabled
C7_Witness ==
    /\ Cached
    /\ FEq(LBaseline, Zero)
    /\ EnabledRows # {}
    /\ \A n \in 1..3 : LPhaseRes[n].saving_pct = Zero

\* C8: when every operation is disabled, the baseline is 0 and, for each
\* phase, remaining = 0, solutions_used = [] and investment_total = 0,
\* whatever the times, phases and costs of the request.
C8_AllDisabled ==
    (Cached /\ EnabledRows = {}) =>
        /\ LBaseline = Zero
        /\ \A n \in 1..3 :
              /\ LPhaseRes[n].remaining_h_per_day = Zero
              /\ LPhaseRes[n].solutions_used = <<>>
              /\ LPhaseRes[n].investment_k_eur_total = Zero

\* every operation is disabled, one of them with a time that is NaN and
\* with the phase "Never"
C8_Witness ==
    /\ Cached
    /\ EnabledRows = {}
    /\ LBaseline = Zero
    /\ \E i \in 1..NDefs : IsNaN(LTimes[NameOf(i)]) /\ LPhases[NameOf(i)] = "Never"

\* C9: with the labor model enabled and validated inputs,
\* crew_per_shift_required[n] >= min_crew_per_shift_hse for every phase n,
\* also when no operation is enabled.
C9_CrewFloor ==
    (ui.chk_crew_model /\ Fresh) =>
        \A n \in 1..3 :
           FGe(LPhaseRes[n].crew_per_shift_required, LInputs.min_crew_per_shift_hse)

HeatMsg == Msg("Heat/day must be > 0.", "")
ReadMsg == Msg("could not convert string to float", "")

\* C10: a calculation request with heat_per_day <= 0 fails with a validation
\* error: compute_results is not called and nothing is produced for it.
C10_HeatRejected ==
    [][FLe(PyFloat(ui'.heat), Zero) =>
         /\ ev'.msg \in {HeatMsg, ReadMsg}
         /\ (ev'.msg = ReadMsg => ReadRaises(read_inputs(ui'), read_scope(ui')))
         /\ ~ev'.computed
         /\ last' = last]_vars

\* a request with heat_per_day <= 0 was rejected for its heat/day
C10_Witness ==
    /\ FLe(PyFloat(ui.heat), Zero)
    /\ ev.msg = HeatMsg
    /\ ~ev.computed

----------------------------------------------------------------------------
(* Properties of the validation gate *)

\* the request of the most recent handler was read: float() raised nowhere
WasRead == ~ReadRaises(request.inputs, request.scope)

\* the most recent handler called compute_results
Accepted == ev.computed

\* the rules of the gate on the request of the most recent handler
RuleHeat == FGt(request.inputs.heat_per_day, Zero)
RuleO2 == FLe(Zero, request.inputs.o2_success) /\ FLe(request.inputs.o2_success, One)
RuleDays ==
    /\ FGt(request.inputs.working_days_month, Zero)
    /\ FGt(request.inputs.working_days_year, Zero)
RuleLives ==
    /\ FGt(request.inputs.plate_life, Zero)
    /\ FGt(request.inputs.cnt_life, Zero)
    /\ FGt(request.inputs.in_life, Zero)
    /\ FGt(request.inputs.pp_life, Zero)
RuleOperations ==
    \A name \in OpNames :
       request.scope.enabled[name] =>
          /\ FGt(request.scope.times[name], Zero)
          /\ FGe(request.scope.costs[name], Zero)
          /\ FGe(request.scope.crew_manual[name], Zero)
RuleLabor ==
    ui.chk_crew_model =>
       /\ FGe(request.inputs.crew_per_shift_baseline, Zero)
       /\ FGt(request.inputs.shifts_per_day, Zero)
       /\ FGe(request.inputs.min_crew_per_shift_hse, Zero)
       /\ FGe(request.inputs.avg_operator_cost_year, Zero)

\* C11: the gate accepts a request, and the aggregation runs, if and only if
\* heat_per_day > 0, 0 <= o2_success <= 1, the working days per month and per
\* year are > 0, the four lives are > 0, every enabled operation has
\* time > 0, cost >= 0 and manual crew >= 0 and, with the labor model on,
\* crew_per_shift_baseline >= 0, shifts_per_day > 0,
\* min_crew_per_shift_hse >= 0 and avg_operator_cost_year >= 0.
C11_GateIff ==
    WasRead =>
        (Accepted <=> (RuleHeat /\ RuleO2 /\ RuleDays /\ RuleLives /\ RuleOperations /\ RuleLabor))

\* the rules that the request of the most recent handler breaks
ViolatedRules ==
    {tag \in {"heat", "o2", "days", "plate", "cnt", "in", "pp", "time", "cost", "crew",
              "crew_baseline", "shifts", "hse", "op_cost"} :
        CASE tag = "heat" -> ~RuleHeat
          [] tag = "o2" -> ~RuleO2
          [] tag = "days" -> ~RuleDays
          [] tag = "plate" -> ~FGt(request.inputs.plate_life, Zero)
          [] tag = "cnt" -> ~FGt(request.inputs.cnt_life, Zero)
          [] tag = "in" -> ~FGt(request.inputs.in_life, Zero)
          [] tag = "pp" -> ~FGt(request.inputs.pp_life, Zero)
          [] tag = "time" -> \E k \in OpNames :
                                request.scope.enabled[k] /\ ~FGt(request.scope.times[k], Zero)
          [] tag = "cost" -> \E k \in OpNames :
                                request.scope.enabled[k] /\ ~FGe(request.scope.costs[k], Zero)
          [] tag = "crew" -> \E k \in OpNames :
                                request.scope.enabled[k] /\ ~FGe(request.scope.crew_manual[k], Zero)
          [] tag = "crew_baseline" ->
                ui.chk_crew_model /\ ~FGe(request.inputs.crew_per_shift_baseline, Zero)
          [] tag = "shifts" -> ui.chk_crew_model /\ ~FGt(request.inputs.shifts_per_day, Zero)
          [] tag = "hse" -> ui.chk_crew_model /\ ~FGe(request.inputs.min_crew_per_shift_hse, Zero)
          [] tag = "op_cost" ->
                ui.chk_crew_model /\ ~FGe(request.inputs.avg_operator_cost_year, Zero)}

\* the order in which the rules are listed: heat, O2 success, working days,
\* the four lives, the values of the enabled operations, the labor parameters
ListedOrder ==
    <<"heat", "o2", "days", "plate", "cnt", "in", "pp", "time", "cost", "crew",
      "crew_baseline", "shifts", "hse", "op_cost">>

\* the text of the error that reports a broken rule
TextOf(tag) ==
    CASE tag = "heat" -> "Heat/day must be > 0."
      [] tag = "o2" -> "O2 success rate must be between 0 and 1."
      [] tag = "days" -> "Working days/month and days/year must be > 0."
      [] tag = "plate" -> "Plate life must be > 0."
      [] tag = "cnt" -> "CNT life must be > 0."
      [] tag = "in" -> "IN life must be > 0."
      [] tag = "pp" -> "PP life must be > 0."
      [] tag = "time" -> "Time/op must be > 0"
      [] tag = "cost" -> "Cost must be >= 0"
      [] tag = "crew" -> "Crew per shift (manual) must be >= 0"
      [] tag = "crew_baseline" -> "Crew per shift (baseline) must be >= 0."
      [] tag = "shifts" -> "Number of shifts per day must be > 0."
      [] tag = "hse" -> "Minimum crew per shift (HSE) must be >= 0."
      [] tag = "op_cost" -> "Average operator cost per year must be >= 0."

FirstListed(tags) ==
    ListedOrder[Min({j \in 1..Len(ListedOrder) : ListedOrder[j] \in tags})]

\* C12: when a request breaks several rules at once, the gate reports exactly
\* one of them, the first in the order heat_per_day, o2_success, working days,
\* the four lives (plate, CNT, IN, PP), the values of the enabled operations
\* (time, cost, manual crew), the labor parameters.
C12_FirstListedReported ==
    (WasRead /\ Cardinality(ViolatedRules) >= 2) =>
        /\ ev.msg # NoMsg
        /\ ev.msg[1] = TextOf(FirstListed(ViolatedRules))

\* float() raised on a scenario field or on a cell of an enabled operation
EnabledTextUnreadable ==
    \/ ValueError \in InputFloats(request.inputs)
    \/ \E k \in OpNames :
          /\ request.scope.enabled[k]
          /\ ValueError \in {request.scope.times[k], request.scope.costs[k],
                              request.scope.crew_manual[k]}

\* C13: the override values of a disabled operation are not validated:
\* whatever its time, cost and manual crew entries hold (zero, negative, text
\* that is no number), no request is rejected because of them.
C13_DisabledNotValidated ==
    ev.msg # NoMsg =>
        /\ ev.msg[2] # "" => request.scope.enabled[ev.msg[2]]
        /\ ev.msg = ReadMsg => EnabledTextUnreadable

----------------------------------------------------------------------------
(* Properties of the results, continued *)

\* another value than v, and one that would spoil every sum it enters
OtherFloat(v) == IF v = NaN THEN Fin(9, 1) ELSE NaN
OtherPhase(phase) == IF phase = "Phase 1" THEN "Never" ELSE "Phase 1"

\* the results of the request that differs from the cached one in the time,
\* phase, cost and manual crew of every disabled operation
ResultsWithOtherDisabledValues ==
    compute_results(
        LInputs,
        [k \in OpNames |-> IF LEnabled[k] THEN LTimes[k] ELSE OtherFloat(LTimes[k])],
        [k \in OpNames |-> IF LEnabled[k] THEN LPhases[k] ELSE OtherPhase(LPhases[k])],
        [k \in OpNames |-> IF LEnabled[k] THEN LCosts[k] ELSE OtherFloat(LCosts[k])],
        LEnabled,
        [k \in OpNames |-> IF LEnabled[k] THEN LCrewManual[k] ELSE OtherFloat(LCrewManual[k])])

\* C14: disabled operations are excluded from every figure: two requests that
\* agree on the scenario inputs, the enabled flags and the time, phase, cost
\* and manual crew of the enabled operations have the same baseline and the
\* same results in every phase, whatever the values of the disabled operations.
C14_DisabledExcluded ==
    Cached =>
        /\ ~ResultsWithOtherDisabledValues.raised
        /\ ResultsWithOtherDisabledValues.baseline_h = LBaseline
        /\ ResultsWithOtherDisabledValues.phase_results = LPhaseRes

\* a disabled operation holds values that are not its defaults, next to
\* enabled operations with a workload, with the labor model on or off
C14_Witness ==
    /\ Cached
    /\ FGt(LBaseline, Zero)
    /\ FGt(LPhaseRes[3].saving_h_per_day, Zero)
    /\ \E i \in 1..NDefs :
          /\ ~LEnabled[NameOf(i)]
          /\ LTimes[NameOf(i)] # Float(ops_definitions[i].default_time_min)
          /\ LPhases[NameOf(i)] # ops_definitions[i].default_phase

\* C15: the only failure of a calculation is a validation failure: for every
\* request the gate accepts, with the labor model on or off, compute_results
\* returns a baseline and three PhaseResults and raises nothing (no division
\* by a zero life, no division by a zero baseline).
C15_OnlyValidationFails ==
    /\ ev.msg # NoMsg => ~Accepted
    /\ Accepted =>
          /\ last.inputs = Some(request.inputs)
          /\ last.baseline_h # None
          /\ last.phase_res # None
          /\ DOMAIN LPhaseRes = 1..3

\* an accepted request whose lives are not the default ones: the exchanges
\* per day were divided by a life of 3 heats
C15_Witness ==
    /\ Accepted
    /\ ev.msg = NoMsg
    /\ request.inputs.kk = "no"
    /\ request.inputs.cnt_life = Fin(3, 1)
    /\ FGt(LBaseline, Zero)

\* the catalogue operation with the name k
DefOf(k) == ops_definitions[CHOOSE i \in 1..NDefs : NameOf(i) = k]

\* the dict with exactly the ten operation names as keys: an operation the
\* dict lacks has its default, other keys are left out
Canonical(dict, defaults) ==
    [k \in OpNames |-> IF k \in DOMAIN dict THEN dict[k] ELSE defaults[k]]

\* what the gate and the engine do with the canonical request
CanonicalOutcome ==
    Outcome(request.inputs,
            [enabled |-> Canonical(request.scope.enabled, [k \in OpNames |-> TRUE]),
             times |-> Canonical(request.scope.times,
                                 [k \in OpNames |-> Float(DefOf(k).default_time_min)]),
             phases |-> Canonical(request.scope.phases,
                                  [k \in OpNames |-> DefOf(k).default_phase]),
             costs |-> Canonical(request.scope.costs,
                                 [k \in OpNames |-> Float(DefOf(k).default_cost_k_eur)]),
             crew_manual |-> Canonical(request.scope.crew_manual,
                                 [k \in OpNames |-> Float(DefOf(k).default_crew_per_shift_manual)])],
            ui.chk_crew_model)

CrewNeed(i, n) ==
    IF Rank(LPhases[NameOf(i)]) <= n THEN LInputs.automated_crew_per_shift
    ELSE LCrewManual[NameOf(i)]

\* max(a, b): b if it is greater than a, else a
LargerOf(a, b) == IF FGt(b, a) THEN b ELSE a

\* the maximum of need[i] over the enabled rows i <= j, None if there is none
RECURSIVE MaxNeed(_, _)
MaxNeed(need, j) ==
    IF j = 0 THEN None
    ELSE IF j \notin EnabledRows THEN MaxNeed(need, j - 1)
    ELSE IF MaxNeed(need, j - 1) = None THEN Some(need[j])
    ELSE Some(LargerOf(MaxNeed(need, j - 1)[1], need[j]))

\* C17: crew_per_shift_required[n] is the maximum of min_crew_per_shift_hse
\* and, over the enabled operations, of automated_crew_per_shift if the
\* selected phase has rank <= n, else the manual crew per shift; with no
\* operation enabled it is min_crew_per_shift_hse.
C17_CrewRequired ==
    Cached =>
        \A n \in 1..3 :
           LET most == MaxNeed([i \in 1..NDefs |-> CrewNeed(i, n)], NDefs)
           IN  LPhaseRes[n].crew_per_shift_required
                  = IF most = None THEN LInputs.min_crew_per_shift_hse
                    ELSE LargerOf(LInputs.min_crew_per_shift_hse, most[1])

\* C18: in every phase n, paid_headcount_baseline is crew_per_shift_baseline *
\* shifts_per_day, paid_headcount_required[n] is crew_per_shift_required[n] *
\* shifts_per_day, paid_headcount_saved[n] is max(0, paid_headcount_baseline -
\* paid_headcount_required[n]), so never negative, also when the required crew
\* exceeds the baseline crew, and annual_labor_cost_reduction[n] is
\* paid_headcount_saved[n] * avg_operator_cost_year.
C18_PaidHeadcount ==
    Cached =>
        \A n \in 1..3 :
           LET r == LPhaseRes[n]
           IN  /\ r.paid_headcount_baseline
                     = FMul(LInputs.crew_per_shift_baseline, LInputs.shifts_per_day)
               /\ r.paid_headcount_required
                     = FMul(r.crew_per_shift_required, LInputs.shifts_per_day)
               /\ r.paid_headcount_saved
                     = LargerOf(Zero, FSub(r.paid_headcount_baseline, r.paid_headcount_required))
               /\ FGe(r.paid_headcount_saved, Zero)
               /\ r.annual_labor_cost_reduction
                     = FMul(r.paid_headcount_saved, LInputs.avg_operator_cost_year)

\* with the labor model on, the required crew exceeds the baseline crew at
\* phase 1 and nothing is saved there, and heads are saved at phase 3
C18_Witness ==
    /\ Cached
    /\ ui.chk_crew_model
    /\ FGt(LInputs.avg_operator_cost_year, Zero)
    /\ FGt(LPhaseRes[1].paid_headcount_required, LPhaseRes[1].paid_headcount_baseline)
    /\ LPhaseRes[1].paid_headcount_saved = Zero
    /\ FGt(LPhaseRes[3].paid_headcount_saved, Zero)
    /\ FGt(LPhaseRes[3].annual_labor_cost_reduction, Zero)

\* the enabled rows of the cached request whose selected phase is "Never"
NeverRows == {i \in EnabledRows : LPhases[NameOf(i)] = "Never"}

\* C19: an enabled operation whose selected phase is "Never" is not automated
\* at any of the phases 1, 2, 3: it is in no solutions_used[n] and, when no
\* other operation is enabled, remaining[n] is the whole baseline,
\* investment_total[n] is 0 and the required crew is the one of its manual
\* crew and the HSE floor, not the automated crew.
C19_NeverNotAutomated ==
    Cached =>
        \A n \in 1..3 :
           /\ \A i \in NeverRows : NameOf(i) \notin Names(LPhaseRes[n].solutions_used)
           /\ (NeverRows # {} /\ NeverRows = EnabledRows) =>
                 /\ LPhaseRes[n].remaining_h_per_day = LBaseline
                 /\ LPhaseRes[n].saving_h_per_day = FSub(LBaseline, LBaseline)
                 /\ LPhaseRes[n].solutions_used = <<>>
                 /\ LPhaseRes[n].investment_k_eur_total = Zero
                 /\ LPhaseRes[n].crew_per_shift_required
                       = LargerOf(LInputs.min_crew_per_shift_hse,
                                  MaxNeed([i \in 1..NDefs |-> LCrewManual[NameOf(i)]], NDefs)[1])

\* the only enabled operation is set to "Never", with a workload, a cost and,
\* in the labor model, a manual crew above the automated crew
C19_Witness ==
    /\ Cached
    /\ ui.chk_crew_model
    /\ NeverRows # {}
    /\ NeverRows = EnabledRows
    /\ FGt(LBaseline, Zero)
    /\ \A i \in NeverRows : FGt(LCosts[NameOf(i)], Zero)
    /\ FGt(LPhaseRes[3].crew_per_shift_required, LInputs.automated_crew_per_shift)

\* the operation names in catalogue order
CatalogueNames == [i \in 1..NDefs |-> NameOf(i)]

\* C20: solutions_used[n] holds exactly the names of the enabled operations
\* whose selected phase has rank <= n, each once, in catalogue order.
C20_SolutionsInCatalogueOrder ==
    Cached =>
        \A n \in 1..3 :
           LET Listed(name) == LEnabled[name] /\ Rank(LPhases[name]) <= n
           IN  LPhaseRes[n].solutions_used = SelectSeq(CatalogueNames, Listed)

\* several operations are listed, more at phase 3 than at phase 2, and an
\* enabled operation set to "Never" is left out
C20_Witness ==
    /\ Cached
    /\ Len(LPhaseRes[1].solutions_used) >= 2
    /\ Len(LPhaseRes[3].solutions_used) > Len(LPhaseRes[2].solutions_used)
    /\ Len(LPhaseRes[3].solutions_used) < Cardinality(EnabledRows)

----------------------------------------------------------------------------
(* Properties of the catalogue and of the results over the phases *)

\* occurrences per day of the operation `name` as the catalogue table gives them
FormulaDemand(name, inputs) ==
    LET heat == inputs.heat_per_day
    IN  CASE name = "Cylinder manipulation" -> FMul(Fin(2, 1), heat)
          [] name = "CNT tip cleaning" -> IF inputs.cnt_life = One THEN Zero ELSE heat
          [] name = O2Name -> heat
          [] name = "Plate inspection" -> heat
          [] name = "CNT exchange" -> IF inputs.kk = "yes" THEN Zero ELSE FDiv(heat, inputs.cnt_life)
          [] name = "Plate exchange" -> FDiv(heat, inputs.plate_life)
          [] name = "Plate cementing" -> FDiv(heat, inputs.plate_life)
          [] name = "IN & bottom plate surface cleaning" -> FDiv(heat, inputs.plate_life)
          [] name = "IN exchange" -> FDiv(heat, inputs.in_life)
          [] name = "PP exchange" -> FDiv(heat, inputs.pp_life)

\* the cached request is the scenario heat 20, plate life 2, CNT life 1,
\* IN life 9, PP life 20, KK "no", every operation enabled with its default time
ConcreteScenario ==
    /\ Cached
    /\ LInputs.heat_per_day = Fin(20, 1)
    /\ LInputs.plate_life = Fin(2, 1)
    /\ LInputs.cnt_life = Fin(1, 1)
    /\ LInputs.in_life = Fin(9, 1)
    /\ LInputs.pp_life = Fin(20, 1)
    /\ LInputs.kk = "no"
    /\ EnabledRows = 1..NDefs
    /\ LTimes = [name \in OpNames |-> Float(DefOf(name).default_time_min)]

\* (40*1 + 0 + 20*4 + 20*1 + 20*3 + 10*7 + 10*2 + 10*3 + (20/9)*15 + 1*15)/60
ConcreteBaseline ==
    LET minutes == <<Fin(40 * 1, 1), Zero, Fin(20 * 4, 1), Fin(20 * 1, 1), Fin(20 * 3, 1),
                     Fin(10 * 7, 1), Fin(10 * 2, 1), Fin(10 * 3, 1),
                     FMul(Fin(20, 9), Fin(15, 1)), Fin(1 * 15, 1)>>
    IN  FDiv(Accumulate(minutes, 10), Fin(60, 1))

\* C22: the catalogue is exactly ten operations in fixed order; for every
\* validated input the occurrences per day of each operation are those of its
\* formula (cylinder 2*heat; CNT tip cleaning 0 if cnt_life = 1 else heat; O2
\* lancing and plate inspection heat; CNT exchange 0 if kk = "yes" else
\* heat/cnt_life; plate exchange, plate cementing and IN & bottom plate
\* cleaning heat/plate_life; IN exchange heat/in_life; PP exchange
\* heat/pp_life) and are never below zero; in the concrete scenario the
\* baseline is (40 + 0 + 80 + 20 + 60 + 70 + 20 + 30 + (20/9)*15 + 15)/60 h/day.
C22_CatalogueDemand ==
    /\ CatalogueNames =
          <<"Cylinder manipulation", "CNT tip cleaning", O2Name, "Plate inspection",
            "CNT exchange", "Plate exchange", "Plate cementing",
            "IN & bottom plate surface cleaning", "IN exchange", "PP exchange">>
    /\ Cached =>
          \A i \in 1..NDefs :
             /\ Demand(i) = FormulaDemand(NameOf(i), LInputs)
             /\ ~FLt(Demand(i), Zero)
    /\ ConcreteScenario => LBaseline = ConcreteBaseline

\* the concrete scenario was calculated: CNT tip cleaning has no occurrences
\* and the baseline is 221/36 h/day
C22_Witness ==
    /\ ConcreteScenario
    /\ \E i \in 1..NDefs : NameOf(i) = "CNT tip cleaning" /\ Demand(i) = Zero
    /\ LBaseline = Fin(221, 36)

\* the most recent handler worked on a request that keeps every rule of the
\* gate, and cached it with its results
ValidRequest ==
    /\ WasRead
    /\ RuleHeat /\ RuleO2 /\ RuleDays /\ RuleLives /\ RuleOperations /\ RuleLabor
    /\ Accepted
    /\ ev.msg = NoMsg

\* C23: automation is monotonic over the phases of one request: for any valid
\* request remaining_h_per_day[1] >= remaining_h_per_day[2] >=
\* remaining_h_per_day[3] and saving_h_per_day[1] <= saving_h_per_day[2] <=
\* saving_h_per_day[3].
C23_MonotoneOverPhases ==
    ValidRequest =>
        /\ FGe(LPhaseRes[1].remaining_h_per_day, LPhaseRes[2].remaining_h_per_day)
        /\ FGe(LPhaseRes[2].remaining_h_per_day, LPhaseRes[3].remaining_h_per_day)
        /\ FLe(LPhaseRes[1].saving_h_per_day, LPhaseRes[2].saving_h_per_day)
        /\ FLe(LPhaseRes[2].saving_h_per_day, LPhaseRes[3].saving_h_per_day)

\* C25: for every request accepted by the validation gate and every phase n,
\* 0 <= remaining_h_per_day[n] <= baseline, hence saving_h_per_day[n] >= 0 and
\* 0 <= saving_pct[n] <= 1.
C25_RemainingWithinBaseline ==
    (Accepted /\ ev.msg = NoMsg) =>
        \A n \in 1..3 :
           /\ FLe(Zero, LPhaseRes[n].remaining_h_per_day)
           /\ FLe(LPhaseRes[n].remaining_h_per_day, LBaseline)
           /\ FGe(LPhaseRes[n].saving_h_per_day, Zero)
           /\ FLe(Zero, LPhaseRes[n].saving_pct)
           /\ FLe(LPhaseRes[n].saving_pct, One)

\* every enabled operation of the cached request has a manual crew per shift
\* that is at least the automated crew per shift
ManualCrewAtLeastAutomated ==
    \A i \in EnabledRows : FGe(LCrewManual[NameOf(i)], LInputs.automated_crew_per_shift)

\* C30: if every enabled operation's manual crew per shift is >=
\* automated_crew_per_shift, then crew_per_shift_required[1] >=
\* crew_per_shift_required[2] >= crew_per_shift_required[3], and
\* paid_headcount_saved and annual_labor_cost_reduction are non-decreasing in
\* the phase number.
C30_CrewMonotoneOverPhases ==
    (Cached /\ ManualCrewAtLeastAutomated) =>
        \A n \in 1..2 :
           /\ FGe(LPhaseRes[n].crew_per_shift_required, LPhaseRes[n + 1].crew_per_shift_required)
           /\ FLe(LPhaseRes[n].paid_headcount_saved, LPhaseRes[n + 1].paid_headcount_saved)
           /\ FLe(LPhaseRes[n].annual_labor_cost_reduction,
                  LPhaseRes[n + 1].annual_labor_cost_reduction)

----------------------------------------------------------------------------
(* The three versions of the engine *)

\* the fields of a PhaseResults of src/tool7.py that src/tool5.py has as well
WithoutCrewFields(r) ==
    [remaining_h_per_day |-> r.remaining_h_per_day,
     saving_h_per_day |-> r.saving_h_per_day,
     saving_pct |-> r.saving_pct,
     saving_h_per_month |-> r.saving_h_per_month,
     saving_h_per_year |-> r.saving_h_per_year,
     solutions_used |-> r.solutions_used,
     investment_k_eur_total |-> r.investment_k_eur_total,
     investment_k_eur_incremental |-> r.investment_k_eur_incremental]

\* the three engines on the request of the most recent handler
ByTool3 ==
    compute_results_tool3(request.inputs, request.scope.times, request.scope.phases,
                          request.scope.costs)
ByTool5AllEnabled ==
    compute_results_tool5(request.inputs, request.scope.times, request.scope.phases,
                          request.scope.costs, [name \in OpNames |-> TRUE])
ByTool5 ==
    compute_results_tool5(request.inputs, request.scope.times, request.scope.phases,
                          request.scope.costs, request.scope.enabled)
ByTool7 ==
    compute_results(request.inputs, request.scope.times, request.scope.phases,
                    request.scope.costs, request.scope.enabled, request.scope.crew_manual)

\* C24: for the same scenario inputs, times, phases and costs, compute_results
\* of tool5 with every operation enabled returns the same baseline and
\* PhaseResults as compute_results of tool3 (or raises as it does), and
\* compute_results of tool7 returns, for any enabled map, the same baseline,
\* remaining, saving, solutions_used and investment figures as tool5's.
C24_VersionsAgree ==
    WasRead =>
        LET r3 == ByTool3
            r5all == ByTool5AllEnabled
            r5 == ByTool5
            r7 == ByTool7
        IN  /\ r5all.raised = r3.raised
            /\ ~r3.raised =>
                  /\ r5all.baseline_h = r3.baseline_h
                  /\ r5all.phase_results = r3.phase_results
            /\ r7.raised = r5.raised
            /\ ~r5.raised =>
                  /\ r7.baseline_h = r5.baseline_h
                  /\ \A n \in 1..3 :
                        WithoutCrewFields(r7.phase_results[n]) = r5.phase_results[n]

\* a request with a disabled operation, for which tool5 and tool7 return a
\* baseline that is not the one of tool3, and a phase with a saving
C24_Witness ==
    /\ WasRead
    /\ \E name \in OpNames : ~request.scope.enabled[name]
    /\ ~ByTool7.raised
    /\ FGt(ByTool7.baseline_h, Zero)
    /\ FLt(ByTool7.baseline_h, ByTool3.baseline_h)
    /\ FGt(ByTool5.phase_results[3].saving_h_per_day, Zero)
    /\ ByTool5.phase_results[3].solutions_used # <<>>

----------------------------------------------------------------------------
(* Properties of the cache and of the export *)

\* every _last_* field is set
AllSet(l) ==
    /\ l.inputs # None /\ l.times # None /\ l.phases # None /\ l.costs # None
    /\ l.enabled # None /\ l.crew_manual # None
    /\ l.baseline_h # None /\ l.phase_res # None

\* the step is an on_calculate that raised
CalculationFailed == csv' = csv /\ ev'.msg # NoMsg

\* C26: a calculation request that fails (validation violation or unparsable
\* field) changes nothing: after on_calculate returns on the error path, all
\* cached _last_* fields still hold the values of the most recent successful
\* calculation, or are all still None if none has succeeded.
C26_FailureChangesNothing ==
    [][CalculationFailed =>
         /\ last' = last
         /\ last' = NoCache \/ AllSet(last')]_vars

\* a request with an unparsable field failed, and the cache still holds the
\* request and the results of an earlier form
C26_Witness ==
    /\ ev.msg = ReadMsg
    /\ ~ev.computed
    /\ AllSet(last)
    /\ LInputs # request.inputs
    /\ FGt(LBaseline, Zero)

\* the labor model was on when the cached request was read: read_inputs sets
\* shifts_per_day to 0.0 when it is off, and the gate refuses 0 when it is on
CachedWithLaborModel == LInputs.shifts_per_day # Zero

\* C27: after any sequence of calculation requests (successful or failing),
\* toggles, resets and exports, either all _last_* fields are None, or
\* _last_baseline_h and _last_phase_res are exactly compute_results applied to
\* the cached _last_inputs, _last_times, _last_phases, _last_costs,
\* _last_enabled and _last_crew_manual of one and the same request, and that
\* request passed validation.
C27_CacheConsistent ==
    \/ last = NoCache
    \/ /\ AllSet(last)
       /\ LET scope == [enabled |-> LEnabled, times |-> LTimes, phases |-> LPhases,
                        costs |-> LCosts, crew_manual |-> LCrewManual]
              res == compute_results(LInputs, LTimes, LPhases, LCosts, LEnabled, LCrewManual)
          IN  /\ ~ReadRaises(LInputs, scope)
              /\ Validate(LInputs, scope, CachedWithLaborModel) = NoMsg
              /\ ~res.raised
              /\ LBaseline = res.baseline_h
              /\ LPhaseRes = res.phase_results

\* after a reset or toggle that failed, with a file exported: the cache holds
\* an earlier request, computed with the labor model on, and not the form's
C27_Witness ==
    /\ AllSet(last)
    /\ ev.msg # NoMsg
    /\ csv # None
    /\ CachedWithLaborModel
    /\ FGt(LPhaseRes[3].paid_headcount_saved, Zero)
    /\ ~ui.chk_crew_model

\* the step is an export_csv that wrote a file
FileWritten == csv' # csv /\ csv'[1].rows # None

\* C28: whenever export_csv writes a file, the "Enable crew & labor cost
\* model" flag and the crew/labor rows it writes correspond to the labor-model
\* setting under which the cached _last_inputs and _last_phase_res were
\* computed: labor rows are written exactly for results computed with the
\* labor model on.
C28_ExportMatchesCalculation ==
    [][FileWritten =>
         LET rows == csv'[1].rows[1]
         IN  /\ rows.show_crew = YesNo(CachedWithLaborModel)
             /\ rows.crew_inputs # None <=> CachedWithLaborModel
             /\ \A p \in 1..3 : rows.results[p].labor # None <=> CachedWithLaborModel]_vars

NoResults == "No results available yet"

\* C29: export_csv writes results only if a calculation has succeeded since
\* the window was created, and warns (writing nothing) exactly when none
\* has; it is available after a successful calculation in which every
\* operation is disabled and the baseline is 0.
C29_ExportAvailable ==
    [][csv' # csv =>
         /\ csv'[1].out = NoResults <=> ~Cached
         /\ csv'[1].rows # None => Cached
         /\ csv'[1].out = "Exported successfully" <=> csv'[1].rows # None]_vars

\* a file was written from a calculation with every operation disabled and a
\* baseline of 0
C29_Witness ==
    /\ csv # None
    /\ csv[1].out = "Exported successfully"
    /\ Cached
    /\ EnabledRows = {}
    /\ csv[1].rows[1].baseline = Zero
    /\ \A j \in 1..NDefs : csv[1].rows[1].operations[j].use = "no"

====
